---- MODULE Spec2Model ----
(***************************************************************************)
(* A model of server.py: the PWA development server.  main() binds a       *)
(* single-threaded socketserver.TCPServer on port 8000 and serves with     *)
(* PWAHandler, a SimpleHTTPRequestHandler whose end_headers, do_GET and    *)
(* guess_type are overridden.  The inherited http.server / socketserver    *)
(* behaviour the overrides call into is modelled as CPython 3 implements   *)
(* it.  A URL or file path is a sequence of tokens whose concatenation is  *)
(* the string: <<"/", "manifest", ".json", "?", "v=1">>.                   *)
(***************************************************************************)
EXTENDS Integers, Sequences, FiniteSets, TLC

\* Number of client connections one run of the server sees.
MaxConns == 2

(***************************************************************************)
(* Python values and exceptions                                            *)
(***************************************************************************)
PyStr(s) == [py |-> "str", s |-> s, items |-> <<>>]

PyTuple(t) == [py |-> "tuple", s |-> "", items |-> t]

PyNone == [py |-> "None", s |-> "", items |-> <<>>]

\* len() of a Python str or tuple
PyLen(v) == IF v.py = "str" THEN Len(v.s) ELSE Len(v.items)

NoExc == [type |-> "none", errno |-> 0, origin |-> "none"]

Exc(type, errno, origin) == [type |-> type, errno |-> errno, origin |-> origin]

\* isinstance(e, cls) for the builtin exception classes that occur
IsInstance(type, cls) ==
    CASE cls = "BaseException" -> type # "none"
      [] cls = "Exception" -> type \in {"OSError", "FileNotFoundError", "PermissionError", "ValueError"}
      [] cls = "OSError" -> type \in {"OSError", "FileNotFoundError", "PermissionError"}
      [] OTHER -> type = cls

Platforms == {"darwin", "linux", "win32"}

\* errno.EADDRINUSE of the platform the server runs on
EADDRINUSE(p) == CASE p = "darwin" -> 48 [] p = "linux" -> 98 [] OTHER -> 10048

\* errno values of the other faults the model raises
Errno(name) == CASE name = "ENOENT" -> 2 [] name = "ENOMEM" -> 12 [] name = "EACCES" -> 13 [] OTHER -> 0

(***************************************************************************)
(* Requests, URLs and the served directory                                 *)
(***************************************************************************)
ManifestPath == <<"/", "manifest", ".json">>

SwPath == <<"/", "sw", ".js">>

Targets ==
    { ManifestPath,
      ManifestPath \o <<"?", "v=1">>,
      SwPath,
      SwPath \o <<"#", "top">>,
      SwPath \o <<";", "x">>,
      <<"/", "app", ".js">>,
      <<"/", "missing", ".txt">>,
      <<"/">>,
      <<"/", "docs">>,
      <<"/", "docs", "/">>,
      <<"/", "docs", "/", "manifest", ".json">>,
      <<"/", "site", ".webmanifest">> }

Commands == {"GET", "HEAD", "POST"}

\* the third word of the request line; <<>> when the line has two words
Versions == { <<>>, <<"HTTP/", 1, 1>>, <<"HTTP/", 2, 0>>, <<"FTP/", 1, 0>> }

Requests == [command : Commands, target : Targets, version : Versions]

NoReq == [command |-> "", target |-> <<>>, version |-> <<>>]

HTTP09 == <<"HTTP/", 0, 9>>

\* index of the first token of s that is in seps, Len(s) + 1 when there is none
RECURSIVE FirstSep(_, _, _)
FirstSep(s, seps, i) ==
    IF i > Len(s) THEN i
    ELSE IF s[i] \in seps THEN i
    ELSE FirstSep(s, seps, i + 1)

\* urlparse(url).path: the url up to its params, query or fragment
UrlParsePath(url) == SubSeq(url, 1, FirstSep(url, {";", "?", "#"}, 1) - 1)

\* str.endswith
EndsWith(s, suffix) ==
    /\ Len(suffix) <= Len(s)
    /\ SubSeq(s, Len(s) - Len(suffix) + 1, Len(s)) = suffix

\* SimpleHTTPRequestHandler.translate_path: query and fragment dropped
TranslatePath(url) == SubSeq(url, 1, FirstSep(url, {"?", "#"}, 1) - 1)

\* the path without a trailing separator (what the os calls look up)
StripSlash(p) == IF Len(p) > 1 /\ p[Len(p)] = "/" THEN SubSeq(p, 1, Len(p) - 1) ELSE p

FsKinds == {"file", "absent", "unreadable"}

\* the working directory: manifest.json, sw.js and index.html vary, the rest is fixed
FileSystems == [manifest : FsKinds, sw : {"file", "absent"}, index : {"file", "absent"}]

FsKind(fs, path) ==
    LET p == StripSlash(path) IN
    CASE p = <<"/">> -> "dir"
      [] p = <<"/", "docs">> -> "dir"
      [] p = ManifestPath -> fs.manifest
      [] p = SwPath -> fs.sw
      [] p = <<"/", "index", ".html">> -> fs.index
      [] p = <<"/", "app", ".js">> -> "file"
      [] p = <<"/", "docs", "/", "manifest", ".json">> -> "file"
      [] p = <<"/", "site", ".webmanifest">> -> "file"
      [] OTHER -> "absent"

IsDir(fs, path) == FsKind(fs, path) = "dir"

\* os.path.isfile: true of an existing regular file, readable or not
IsFile(fs, path) == FsKind(fs, path) \in {"file", "unreadable"}

(***************************************************************************)
(* Response items written to the connection                                *)
(***************************************************************************)
Status(code) == [t |-> "status", k |-> "", v |-> code]

Hdr(k, v) == [t |-> "header", k |-> k, v |-> v]

EndHdr == [t |-> "end", k |-> "", v |-> ""]

Body(kind, what) == [t |-> "body", k |-> kind, v |-> what]

\* BaseHTTPRequestHandler.send_response_only: nothing for an HTTP/0.9 request
send_response_only(buf, ver, code) == IF ver # HTTP09 THEN Append(buf, Status(code)) ELSE buf

\* BaseHTTPRequestHandler.send_header
send_header(buf, ver, k, v) == IF ver # HTTP09 THEN Append(buf, Hdr(k, v)) ELSE buf

\* BaseHTTPRequestHandler.send_response: status line, Server and Date
send_response(buf, ver, code) ==
    send_header(send_header(send_response_only(buf, ver, code), ver, "Server", "SimpleHTTP"), ver, "Date", "now")

\* BaseHTTPRequestHandler.end_headers: terminate the block; the caller flushes it
base_end_headers(buf, ver) == IF ver # HTTP09 THEN Append(buf, EndHdr) ELSE buf

CacheHeaders ==
    << Hdr("Cache-Control", "no-cache, no-store, must-revalidate"),
       Hdr("Pragma", "no-cache"),
       Hdr("Expires", "0") >>

CorsHeaders ==
    << Hdr("Access-Control-Allow-Origin", "*"),
       Hdr("Access-Control-Allow-Methods", "GET, POST, OPTIONS"),
       Hdr("Access-Control-Allow-Headers", "Content-Type") >>

RECURSIVE SendHeaders(_, _, _)
SendHeaders(buf, ver, hs) ==
    IF hs = <<>> THEN buf
    ELSE SendHeaders(send_header(buf, ver, hs[1].k, hs[1].v), ver, Tail(hs))

\* a handler that forgets the CORS headers
end_headers_NoCors(buf, ver) == base_end_headers(SendHeaders(buf, ver, CacheHeaders), ver)

\* PWAHandler.end_headers
end_headers(buf, ver) == base_end_headers(SendHeaders(buf, ver, CacheHeaders \o CorsHeaders), ver)

\* BaseHTTPRequestHandler.send_error: head, then the HTML body unless HEAD
send_error(ver, command, code) ==
    LET head == end_headers(
                    send_header(
                        send_header(
                            send_header(send_response(<<>>, ver, code), ver, "Connection", "close"),
                            ver, "Content-Type", "text/html;charset=utf-8"),
                        ver, "Content-Length", "len"),
                    ver)
    IN IF command # "HEAD" THEN Append(head, Body("html", code)) ELSE head

(***************************************************************************)
(* Content types                                                           *)
(***************************************************************************)
\* SimpleHTTPRequestHandler.guess_type: ONE str, chosen by the extension
BaseGuessType(path) ==
    LET ext == path[Len(path)] IN
    CASE ext = ".js" -> PyStr("application/javascript")
      [] ext = ".json" -> PyStr("application/json")
      [] ext = ".webmanifest" -> PyStr("application/manifest+json")
      [] ext = ".html" -> PyStr("text/html")
      [] ext = ".txt" -> PyStr("text/plain")
      [] OTHER -> PyStr("application/octet-stream")

\* a, b = v: the two items of v, or ValueError when v has not exactly two
Unpack2(v) ==
    IF PyLen(v) # 2 THEN [raised |-> TRUE, a |-> PyNone, b |-> PyNone]
    ELSE IF v.py = "tuple" THEN [raised |-> FALSE, a |-> v.items[1], b |-> v.items[2]]
    ELSE [raised |-> FALSE, a |-> PyStr("c1"), b |-> PyStr("c2")]

NoGuess == [called |-> FALSE, path |-> <<>>, raised |-> FALSE, value |-> PyNone]

\* PWAHandler.guess_type
guess_type(path) ==
    LET u == Unpack2(BaseGuessType(path)) IN
    IF u.raised
    THEN [called |-> TRUE, path |-> path, raised |-> TRUE, value |-> PyNone]
    ELSE IF EndsWith(path, <<".webmanifest">>) \/ EndsWith(path, <<"manifest", ".json">>)
    THEN [called |-> TRUE, path |-> path, raised |-> FALSE, value |-> PyStr("application/manifest+json")]
    ELSE [called |-> TRUE, path |-> path, raised |-> FALSE, value |-> PyTuple(<<u.a, u.b>>)]

\* "%s" % value, as send_header formats a header value
Format(v) == IF v.py = "str" THEN v.s ELSE "repr of a tuple"

\* a handler that serves the manifest as plain JSON
SpecialContentType_Json(p) == IF p = ManifestPath THEN "application/json" ELSE "application/javascript"

\* the forced content type of the two special paths
SpecialContentType(p) == IF p = ManifestPath THEN "application/manifest+json" ELSE "application/javascript"

IsSpecial(p) == p = ManifestPath \/ p = SwPath

(***************************************************************************)
(* SimpleHTTPRequestHandler.send_head, which calls self.guess_type         *)
(***************************************************************************)
Join(dir, name) == (IF EndsWith(dir, <<"/">>) THEN dir ELSE dir \o <<"/">>) \o name

NoFile == [kind |-> "none", path |-> <<>>]

SendHead(fs, url, ver, command) ==
    LET path0 == TranslatePath(url)
        isdir == IsDir(fs, path0)
        index == Join(path0, <<"index", ".html">>)
        hasIndex == isdir /\ IsFile(fs, index)
        path == IF hasIndex THEN index ELSE path0
        g == guess_type(path)
        plain(items, f) == [items |-> items, f |-> f, guess |-> NoGuess, raised |-> FALSE]
    IN
    IF isdir /\ ~EndsWith(path0, <<"/">>)
    THEN plain(end_headers(
                   send_header(
                       send_header(send_response(<<>>, ver, "301"), ver, "Location", "slash added"),
                       ver, "Content-Length", "0"),
                   ver), NoFile)
    ELSE IF isdir /\ ~hasIndex
    THEN plain(end_headers(
                   send_header(
                       send_header(send_response(<<>>, ver, "200"), ver, "Content-type", "text/html; charset=utf-8"),
                       ver, "Content-Length", "len"),
                   ver), [kind |-> "listing", path |-> path0])
    ELSE IF g.raised
    THEN [items |-> <<>>, f |-> NoFile, guess |-> g, raised |-> TRUE]
    ELSE IF EndsWith(path, <<"/">>) \/ FsKind(fs, path) # "file"
    THEN [items |-> send_error(ver, command, "404"), f |-> NoFile, guess |-> g, raised |-> FALSE]
    ELSE [items |-> end_headers(
                        send_header(
                            send_header(
                                send_header(send_response(<<>>, ver, "200"), ver, "Content-type", Format(g.value)),
                                ver, "Content-Length", "len"),
                            ver, "Last-Modified", "mtime"),
                        ver),
          f |-> [kind |-> "file", path |-> path], guess |-> g, raised |-> FALSE]

(***************************************************************************)
(* State                                                                   *)
(***************************************************************************)
VARIABLES
    pc,              \* where main is
    platform,        \* the platform the process runs on
    portBusy,        \* another process holds port 8000
    fs,              \* the working directory
    sock,            \* the listening socket: "none", "open", "closed"
    printed,         \* main's messages on stdout, in order
    exitCode,        \* the process's exit status, -1 while it runs
    interrupted,     \* SIGINT was delivered
    exc,             \* the exception being raised or handled
    caughtBy,        \* the clause that caught exc
    served,          \* serve_forever was entered
    backlog,         \* connections waiting in the listen queue
    nconn,           \* connections clients have made
    accepted,        \* connections get_request has returned
    inProgress,      \* connections whose handler runs
    handledErrors,   \* requests handle_error has reported on stderr
    hpc,             \* where the handler is
    req,             \* the request line the handler parsed
    request_version, \* the handler's request_version
    wire,            \* what the handler has written to its connection
    guess,           \* this request's call of guess_type
    hfile            \* what send_head returned for copyfile

mainVars == <<pc, platform, portBusy, fs, sock, printed, exitCode, interrupted, exc, caughtBy, served>>

netVars == <<backlog, nconn, accepted, inProgress, handledErrors>>

hVars == <<hpc, req, request_version, wire, guess, hfile>>

vars == <<mainVars, netVars, hVars>>

Init ==
    /\ pc = "chdir"
    /\ platform \in Platforms
    /\ portBusy \in BOOLEAN
    /\ fs \in FileSystems
    /\ sock = "none"
    /\ printed = <<>>
    /\ exitCode = -1
    /\ interrupted = FALSE
    /\ exc = NoExc
    /\ caughtBy = "none"
    /\ served = FALSE
    /\ backlog = 0
    /\ nconn = 0
    /\ accepted = 0
    /\ inProgress = {}
    /\ handledErrors = 0
    /\ hpc = "idle"
    /\ req = NoReq
    /\ request_version = HTTP09
    /\ wire = <<>>
    /\ guess = NoGuess
    /\ hfile = NoFile

(***************************************************************************)
(* main: the try block and its except clauses                              *)
(***************************************************************************)
\* the errno main compares e.errno with
PortInUseErrno == 48

TryBody == {"try_bind", "banner", "serve_forever", "process_request"}

\* a try statement without the KeyboardInterrupt clause
ExceptClause_NoInterrupt(e) ==
    IF IsInstance(e.type, "OSError") THEN "except_OSError" ELSE "unhandled"

\* a try statement whose OSError clause matches the port-in-use errno only
ExceptClause_PortInUseOnly(e) ==
    IF IsInstance(e.type, "KeyboardInterrupt") THEN "except_KeyboardInterrupt"
    ELSE IF IsInstance(e.type, "OSError") /\ e.errno = PortInUseErrno THEN "except_OSError"
    ELSE "unhandled"

\* the except clause of main's try statement that matches e
ExceptClause(e) ==
    IF IsInstance(e.type, "KeyboardInterrupt") THEN "except_KeyboardInterrupt"
    ELSE IF IsInstance(e.type, "OSError") THEN "except_OSError"
    ELSE "unhandled"

CaughtBy(clause) == IF clause = "unhandled" THEN "none" ELSE clause

ResetHandler ==
    /\ hpc' = "idle"
    /\ req' = NoReq
    /\ request_version' = HTTP09
    /\ wire' = <<>>
    /\ guess' = NoGuess
    /\ hfile' = NoFile

\* e leaves the try body: the request in progress is shut down, the with
\* statement (or TCPServer.__init__) closes the socket, a clause is chosen
RaiseInTry(e) ==
    /\ exc' = e
    /\ pc' = ExceptClause(e)
    /\ caughtBy' = CaughtBy(ExceptClause(e))
    /\ sock' = IF sock = "open" THEN "closed" ELSE sock
    /\ inProgress' = {}
    /\ ResetHandler
    /\ UNCHANGED <<backlog, nconn, accepted, handledErrors>>

\* e is raised where no try statement encloses it
RaiseOutside(e) ==
    /\ exc' = e
    /\ pc' = "unhandled"
    /\ caughtBy' = "none"
    /\ UNCHANGED <<sock, netVars, hVars>>

Chdir ==
    /\ pc = "chdir"
    /\ \/ /\ pc' = "try_bind"
          /\ UNCHANGED <<exc, caughtBy, sock, netVars, hVars>>
       \/ RaiseOutside(Exc("FileNotFoundError", Errno("ENOENT"), "chdir"))
    /\ UNCHANGED <<platform, portBusy, fs, printed, exitCode, interrupted, served>>

Bind ==
    /\ pc = "try_bind"
    /\ \/ /\ portBusy
          /\ RaiseInTry(Exc("OSError", EADDRINUSE(platform), "try_bind"))
       \/ /\ ~portBusy
          /\ RaiseInTry(Exc("OSError", Errno("EACCES"), "try_bind"))
       \/ /\ ~portBusy
          /\ sock' = "open"
          /\ pc' = "banner"
          /\ UNCHANGED <<exc, caughtBy, netVars, hVars>>
    /\ UNCHANGED <<platform, portBusy, fs, printed, exitCode, interrupted, served>>

PrintBanner ==
    /\ pc = "banner"
    /\ printed' = Append(printed, "Daily Routine PWA Server")
    /\ pc' = "serve_forever"
    /\ served' = TRUE
    /\ UNCHANGED <<platform, portBusy, fs, sock, exitCode, interrupted, exc, caughtBy, netVars, hVars>>

\* selector.select raises inside serve_forever
ServeLoopOSError ==
    /\ pc = "serve_forever"
    /\ RaiseInTry(Exc("OSError", Errno("ENOMEM"), "serve_forever"))
    /\ UNCHANGED <<platform, portBusy, fs, printed, exitCode, interrupted, served>>

\* SIGINT: KeyboardInterrupt is raised wherever main happens to be
KeyboardInterrupt ==
    /\ ~interrupted
    /\ pc \in TryBody \cup {"chdir", "except_OSError"}
    /\ interrupted' = TRUE
    /\ IF pc \in TryBody
       THEN RaiseInTry(Exc("KeyboardInterrupt", 0, pc))
       ELSE RaiseOutside(Exc("KeyboardInterrupt", 0, pc))
    /\ UNCHANGED <<platform, portBusy, fs, printed, exitCode, served>>

ExceptKeyboardInterrupt ==
    /\ pc = "except_KeyboardInterrupt"
    /\ printed' = Append(printed, "Server stopped")
    /\ pc' = "exited"
    /\ exitCode' = 0
    /\ UNCHANGED <<platform, portBusy, fs, sock, interrupted, exc, caughtBy, served, netVars, hVars>>

ExceptOSError ==
    /\ pc = "except_OSError"
    /\ printed' = printed \o
          (IF exc.errno = PortInUseErrno
           THEN <<"Port 8000 is already in use", "Try a different port or stop the existing server">>
           ELSE <<"Server error">>)
    /\ pc' = "exited"
    /\ exitCode' = 1
    /\ UNCHANGED <<platform, portBusy, fs, sock, interrupted, exc, caughtBy, served, netVars, hVars>>

\* the interpreter's end on an exception nothing caught
Unhandled ==
    /\ pc = "unhandled"
    /\ pc' = "exited"
    /\ exitCode' = IF exc.type = "KeyboardInterrupt" THEN 130 ELSE 1
    /\ UNCHANGED <<platform, portBusy, fs, sock, printed, interrupted, exc, caughtBy, served, netVars, hVars>>

(***************************************************************************)
(* The serve loop: socketserver.TCPServer, one request at a time           *)
(***************************************************************************)
\* a threading server: accepts while a handler runs
ServerReady_Threading == pc \in {"serve_forever", "process_request"}

\* the serve loop is back in select and may call get_request
ServerReady == pc = "serve_forever"

\* a client connects; the kernel queues the connection
Connect ==
    /\ sock = "open"
    /\ nconn < MaxConns
    /\ nconn' = nconn + 1
    /\ backlog' = backlog + 1
    /\ UNCHANGED <<mainVars, accepted, inProgress, handledErrors, hVars>>

Accept ==
    /\ ServerReady
    /\ backlog > 0
    /\ backlog' = backlog - 1
    /\ accepted' = accepted + 1
    /\ inProgress' = inProgress \cup {accepted + 1}
    /\ pc' = "process_request"
    /\ hpc' = "parse"
    /\ req' = NoReq
    /\ request_version' = HTTP09
    /\ wire' = <<>>
    /\ guess' = NoGuess
    /\ hfile' = NoFile
    /\ UNCHANGED <<platform, portBusy, fs, sock, printed, exitCode, interrupted, exc, caughtBy, served, nconn, handledErrors>>

Handling(step) == pc = "process_request" /\ hpc = step

\* the handler returned: shutdown_request, back to select
FinishRequest ==
    /\ Handling("done")
    /\ pc' = "serve_forever"
    /\ inProgress' = inProgress \ {accepted}
    /\ ResetHandler
    /\ UNCHANGED <<platform, portBusy, fs, sock, printed, exitCode, interrupted, exc, caughtBy, served, backlog, nconn, accepted, handledErrors>>

\* a serve loop that lets a handler's exception out of serve_forever
HandleError_Propagate ==
    /\ Handling("raised")
    /\ RaiseInTry(exc)
    /\ UNCHANGED <<platform, portBusy, fs, printed, exitCode, interrupted, served>>

\* the handler raised an Exception: handle_error reports it on stderr,
\* shutdown_request, back to select
HandleError ==
    /\ Handling("raised")
    /\ IsInstance(exc.type, "Exception")
    /\ pc' = "serve_forever"
    /\ exc' = NoExc
    /\ caughtBy' = "none"
    /\ inProgress' = inProgress \ {accepted}
    /\ handledErrors' = handledErrors + 1
    /\ ResetHandler
    /\ UNCHANGED <<platform, portBusy, fs, sock, printed, exitCode, interrupted, served, backlog, nconn, accepted>>

(***************************************************************************)
(* PWAHandler: one request on the accepted connection                      *)
(***************************************************************************)
\* BaseHTTPRequestHandler.parse_request: the error it answers with, "" if none
ParseError(r) ==
    LET v == r.version IN
    IF v # <<>> /\ v[1] # "HTTP/" THEN "400"
    ELSE IF v # <<>> /\ v[2] >= 2 THEN "505"
    ELSE IF v = <<>> /\ r.command # "GET" THEN "400"
    ELSE ""

\* request_version after parse_request: the default unless the version was accepted
ParsedVersion(r) == IF r.version = <<>> \/ ParseError(r) # "" THEN HTTP09 ELSE r.version

\* handle_one_request: parse the request line, answer a bad one, find do_<command>
ParseRequest ==
    /\ Handling("parse")
    /\ \E r \in Requests :
          /\ req' = r
          /\ request_version' = ParsedVersion(r)
          /\ IF ParseError(r) # ""
             THEN /\ wire' = send_error(ParsedVersion(r), "None", ParseError(r))
                  /\ hpc' = "done"
             ELSE IF r.command \notin {"GET", "HEAD"}
             THEN /\ wire' = send_error(ParsedVersion(r), r.command, "501")
                  /\ hpc' = "done"
             ELSE /\ wire' = <<>>
                  /\ hpc' = IF r.command = "GET" THEN "do_GET" ELSE "do_HEAD"
    /\ UNCHANGED <<mainVars, netVars, guess, hfile>>

\* a do_GET that opens the file before it sends the head
DoGET_Special_OpenFirst ==
    /\ Handling("do_GET")
    /\ IsSpecial(UrlParsePath(req.target))
    /\ IF FsKind(fs, UrlParsePath(req.target)) = "file"
       THEN /\ wire' = wire \o end_headers(
                          send_header(send_response(<<>>, request_version, "200"), request_version,
                                      "Content-type", SpecialContentType(UrlParsePath(req.target))),
                          request_version)
            /\ hfile' = [kind |-> "special", path |-> UrlParsePath(req.target)]
            /\ hpc' = "open"
            /\ UNCHANGED <<exc, caughtBy>>
       ELSE /\ wire' = wire \o send_error(request_version, req.command, "404")
            /\ hpc' = "done"
            /\ UNCHANGED <<hfile, exc, caughtBy>>
    /\ UNCHANGED <<pc, platform, portBusy, fs, sock, printed, exitCode, interrupted, served, netVars, req, request_version, guess>>

\* do_GET on /manifest.json or /sw.js: 200, the forced type, end_headers
DoGET_Special ==
    /\ Handling("do_GET")
    /\ IsSpecial(UrlParsePath(req.target))
    /\ wire' = wire \o end_headers(
                   send_header(send_response(<<>>, request_version, "200"), request_version,
                               "Content-type", SpecialContentType(UrlParsePath(req.target))),
                   request_version)
    /\ hfile' = [kind |-> "special", path |-> UrlParsePath(req.target)]
    /\ hpc' = "open"
    /\ UNCHANGED <<mainVars, netVars, req, request_version, guess>>

\* with open(name, 'rb') as f: self.wfile.write(f.read())
OpenSpecial ==
    /\ Handling("open")
    /\ IF FsKind(fs, hfile.path) = "file"
       THEN /\ wire' = Append(wire, Body("file", hfile.path))
            /\ hpc' = "done"
            /\ UNCHANGED <<exc, caughtBy>>
       ELSE /\ exc' = IF FsKind(fs, hfile.path) = "absent"
                      THEN Exc("FileNotFoundError", Errno("ENOENT"), "process_request")
                      ELSE Exc("PermissionError", Errno("EACCES"), "process_request")
            /\ caughtBy' = "none"
            /\ hpc' = "raised"
            /\ UNCHANGED wire
    /\ UNCHANGED <<pc, platform, portBusy, fs, sock, printed, exitCode, interrupted, served, netVars, req, request_version, guess, hfile>>

\* the inherited send_head, run for command
RunSendHead(command) ==
    LET r == SendHead(fs, req.target, request_version, command) IN
    /\ wire' = wire \o r.items
    /\ guess' = r.guess
    /\ IF r.raised
       THEN /\ exc' = Exc("ValueError", 0, "process_request")
            /\ caughtBy' = "none"
            /\ hpc' = "raised"
            /\ UNCHANGED hfile
       ELSE IF command = "GET" /\ r.f.kind # "none"
       THEN /\ hfile' = r.f
            /\ hpc' = "copyfile"
            /\ UNCHANGED <<exc, caughtBy>>
       ELSE /\ hpc' = "done"
            /\ UNCHANGED <<hfile, exc, caughtBy>>
    /\ UNCHANGED <<pc, platform, portBusy, fs, sock, printed, exitCode, interrupted, served, netVars, req, request_version>>

\* do_GET on any other path: super().do_GET(), that is send_head then copyfile
DoGET_Default ==
    /\ Handling("do_GET")
    /\ ~IsSpecial(UrlParsePath(req.target))
    /\ RunSendHead("GET")

\* the inherited do_HEAD
DoHEAD ==
    /\ Handling("do_HEAD")
    /\ RunSendHead("HEAD")

\* SimpleHTTPRequestHandler.copyfile: the file or the listing
CopyFile ==
    /\ Handling("copyfile")
    /\ wire' = Append(wire, Body(hfile.kind, hfile.path))
    /\ hpc' = "done"
    /\ UNCHANGED <<mainVars, netVars, req, request_version, guess, hfile>>

Next ==
    \/ Chdir
    \/ Bind
    \/ PrintBanner
    \/ ServeLoopOSError
    \/ KeyboardInterrupt
    \/ ExceptKeyboardInterrupt
    \/ ExceptOSError
    \/ Unhandled
    \/ Connect
    \/ Accept
    \/ ParseRequest
    \/ DoGET_Special
    \/ OpenSpecial
    \/ DoGET_Default
    \/ DoHEAD
    \/ CopyFile
    \/ FinishRequest
    \/ HandleError

Spec == Init /\ [][Next]_vars

\* the interpreter keeps running the except clause it entered
FairSpec == Spec /\ WF_vars(ExceptKeyboardInterrupt) /\ WF_vars(ExceptOSError) /\ WF_vars(Unhandled)

(***************************************************************************)
(* What the specification says of the server, stated on the responses and  *)
(* on main's states                                                        *)
(***************************************************************************)
InSeq(x, q) == \E i \in 1..Len(q) : q[i] = x

\* the six headers, as the specification lists them
SixHeaders ==
    { Hdr("Cache-Control", "no-cache, no-store, must-revalidate"),
      Hdr("Pragma", "no-cache"),
      Hdr("Expires", "0"),
      Hdr("Access-Control-Allow-Origin", "*"),
      Hdr("Access-Control-Allow-Methods", "GET, POST, OPTIONS"),
      Hdr("Access-Control-Allow-Headers", "Content-Type") }

\* w has a terminated header block and each of the six headers before its end
SixBeforeEnd(w) ==
    \E e \in 1..Len(w) :
        /\ w[e] = EndHdr
        /\ \A h \in SixHeaders : \E i \in 1..(e - 1) : w[i] = h

HeaderValues(w, name) == { w[i].v : i \in { j \in 1..Len(w) : w[j].t = "header" /\ w[j].k = name } }

HeaderCount(w, name) == Cardinality({ j \in 1..Len(w) : w[j].t = "header" /\ w[j].k = name })

HasBody(w) == \E i \in 1..Len(w) : w[i].t = "body"

AcceptedVersion == request_version # HTTP09

\* the targets whose path component is exactly /manifest.json or /sw.js
TargetsOf(p) ==
    { t \in Targets : t = p \/ (Len(t) > Len(p) /\ SubSeq(t, 1, Len(p)) = p /\ t[Len(p) + 1] \in {";", "?", "#"}) }

SpecialGet(p) == req.command = "GET" /\ req.target \in TargetsOf(p)

ForcedType(p) == IF p = ManifestPath THEN "application/manifest+json" ELSE "application/javascript"

\* the response head of a special path: 200, one forced Content-type, the six headers, no error
SpecialHead(p) ==
    /\ wire # <<>>
    /\ wire[1] = Status("200")
    /\ HeaderValues(wire, "Content-type") = {ForcedType(p)}
    /\ HeaderCount(wire, "Content-type") = 1
    /\ SixBeforeEnd(wire)

\* C1 as stated: every response the server emits, whatever the request,
\* carries the six headers before the end of its header block.
C1_EveryResponse == wire # <<>> => SixBeforeEnd(wire)

\* C1 as amended: every response to a request line whose version the server
\* accepted (every response that has a status line or a header at all)
\* carries the six headers before the end of its header block.
C1_ResponsesWithHead ==
    (wire # <<>> /\ (AcceptedVersion \/ \E i \in 1..Len(wire) : wire[i].t \in {"status", "header", "end"}))
        => SixBeforeEnd(wire)

C1_Witness ==
    /\ Handling("done")
    /\ req.command = "POST"
    /\ wire # <<>>
    /\ wire[1] = Status("501")
    /\ SixBeforeEnd(wire)

\* C2 as stated: a GET whose path component is /manifest.json (or /sw.js),
\* once parse_request let it through to do_GET and do_GET returned, was
\* answered 200 with the forced Content-type, exactly once, the file as the
\* body, and guess_type not consulted.
C2_SpecialAnswered ==
    \A p \in {ManifestPath, SwPath} :
        (Handling("done") /\ SpecialGet(p) /\ ParseError(req) = "") =>
            /\ SpecialHead(p)
            /\ wire[Len(wire)] = Body("file", p)
            /\ ~guess.called

\* C2 as amended: the same for a request line whose version the server
\* accepted; the body is the file's content when the file can be read.
C2_SpecialAnsweredHttp1 ==
    \A p \in {ManifestPath, SwPath} :
        (pc = "process_request" /\ hpc \in {"open", "done", "raised"} /\ SpecialGet(p) /\ AcceptedVersion) =>
            /\ SpecialHead(p)
            /\ ~guess.called
            /\ hpc = "done" => (FsKind(fs, p) = "file" /\ wire[Len(wire)] = Body("file", p))
            /\ FsKind(fs, p) = "file" => hpc \in {"open", "done"}

C2_Witness ==
    /\ Handling("done")
    /\ req.target = ManifestPath \o <<"?", "v=1">>
    /\ req.command = "GET"
    /\ AcceptedVersion
    /\ wire[Len(wire)] = Body("file", ManifestPath)

\* C3: a GET of any other path is served as SimpleHTTPRequestHandler serves
\* it: a regular file 200 with the type of its extension, a directory with
\* its index page, a listing or the redirect to it, a missing file 404.
C3_DefaultServing ==
    (pc = "process_request" /\ hpc \in {"done", "raised"} /\ req.command = "GET" /\ AcceptedVersion
        /\ ~SpecialGet(ManifestPath) /\ ~SpecialGet(SwPath)) =>
        LET p == TranslatePath(req.target) IN
        /\ hpc = "done"
        /\ wire # <<>>
        /\ FsKind(fs, p) = "file" =>
              (wire[1] = Status("200") /\ HeaderCount(wire, "Content-type") = 1 /\ HasBody(wire))
        /\ FsKind(fs, p) = "absent" => wire[1] = Status("404")
        /\ FsKind(fs, p) = "dir" => wire[1] \in {Status("200"), Status("301")}

\* C4: a bind that fails because the port is in use ends in the "Port 8000
\* is already in use" message and exit code 1, the serve loop never entered.
C4_PortInUseReported ==
    (pc = "exited" /\ exc.type = "OSError" /\ exc.origin = "try_bind" /\ exc.errno = EADDRINUSE(platform)) =>
        /\ exitCode = 1
        /\ ~served
        /\ InSeq("Port 8000 is already in use", printed)

InterruptedInTry == exc.type = "KeyboardInterrupt" /\ exc.origin \in TryBody

\* C5: a keyboard interrupt delivered while main is binding, printing the
\* banner, idle in serve_forever or handling a request leaves no open
\* listening socket and leads to "Server stopped" and exit code 0.
C5_InterruptStops ==
    /\ [](InterruptedInTry =>
            /\ sock # "open"
            /\ pc \in {"except_KeyboardInterrupt", "exited"}
            /\ pc = "exited" => (exitCode = 0 /\ InSeq("Server stopped", printed)))
    /\ (InterruptedInTry ~> (pc = "exited" /\ exitCode = 0 /\ InSeq("Server stopped", printed)))

C5_Witness ==
    /\ pc = "exited"
    /\ exc = Exc("KeyboardInterrupt", 0, "process_request")
    /\ exitCode = 0
    /\ sock = "closed"

\* C6: at most one request is in progress; a connection is accepted only
\* when no handler runs, and only the one running handler writes.
C6_OneAtATime ==
    /\ [](Cardinality(inProgress) <= 1)
    /\ [][accepted' # accepted => inProgress = {}]_vars
    /\ [][(wire' # wire /\ wire' # <<>>) => (inProgress = {accepted} /\ inProgress' = inProgress)]_vars

C6_Witness ==
    /\ Handling("copyfile")
    /\ inProgress = {1}
    /\ backlog = 1

PortInUse(e) == e.type = "OSError" /\ e.origin = "try_bind" /\ e.errno = EADDRINUSE(platform)

C8_GuessTypeReturns ==
    guess.called =>
        /\ ~guess.raised
        /\ guess.value.py = "str"
        /\ guess.value =
              (IF EndsWith(guess.path, <<".webmanifest">>) \/ EndsWith(guess.path, <<"manifest", ".json">>)
               THEN PyStr("application/manifest+json")
               ELSE BaseGuessType(guess.path))

\* the head of a special path is on the wire and nothing else is
HeadOnly(p) == SpecialHead(p) /\ wire[Len(wire)] = EndHdr /\ ~HasBody(wire)

NoErrorStatus == \A i \in 1..Len(wire) : wire[i].t = "status" => wire[i].v = "200"

\* C9 as stated: on a special path that reached do_GET the complete 200 head
\* is sent before the file is opened, it is all the client gets when the
\* file cannot be read, and no error response is produced.
C9_HeadBeforeOpen ==
    \A p \in {ManifestPath, SwPath} :
        (pc = "process_request" /\ SpecialGet(p) /\ ParseError(req) = "" /\ hpc \in {"open", "done", "raised"}) =>
            /\ NoErrorStatus
            /\ hpc \in {"open", "raised"} => HeadOnly(p)
            /\ FsKind(fs, p) # "file" => hpc # "done"

\* C9 as amended: the same for a request line whose version the server accepted.
C9_HeadBeforeOpenHttp1 ==
    \A p \in {ManifestPath, SwPath} :
        (pc = "process_request" /\ SpecialGet(p) /\ AcceptedVersion /\ hpc \in {"open", "done", "raised"}) =>
            /\ NoErrorStatus
            /\ hpc \in {"open", "raised"} => HeadOnly(p)
            /\ FsKind(fs, p) # "file" => hpc # "done"

C9_Witness ==
    /\ Handling("raised")
    /\ SpecialGet(SwPath)
    /\ AcceptedVersion
    /\ fs.sw = "absent"
    /\ exc.type = "FileNotFoundError"
    /\ HeadOnly(SwPath)

Serving == pc \in {"serve_forever", "process_request"}

\* C10: the serve loop goes on after a request whose handler raised; the
\* process leaves serve_forever only by a keyboard interrupt, which ends in
\* exit code 0, or by an OSError of the serve loop, which ends in exit code 1.
C10_KeepsServing ==
    /\ [](Serving => (sock = "open" /\ exitCode = -1))
    /\ []((pc = "serve_forever" /\ backlog > 0) => ENABLED Accept)
    /\ [][(Handling("raised") /\ pc' # pc) =>
            ((pc' = "serve_forever" /\ sock' = "open" /\ exitCode' = -1) \/ pc' = "except_KeyboardInterrupt")]_vars
    /\ [][(Serving /\ ~Serving') =>
            \/ (pc' = "except_KeyboardInterrupt" /\ exc'.type = "KeyboardInterrupt")
            \/ (pc' = "except_OSError" /\ exc' = Exc("OSError", exc'.errno, "serve_forever"))]_vars
    /\ [][(pc = "except_KeyboardInterrupt" /\ pc' # pc) => exitCode' = 0]_vars
    /\ [][(pc = "except_OSError" /\ pc' = "exited") => exitCode' = 1]_vars

C10_Witness ==
    /\ Handling("done")
    /\ handledErrors > 0
    /\ wire # <<>>
    /\ wire[1] = Status("200")

====
